---- MODULE Spec2Model ----
(***************************************************************************)
(* A model of sitemap-crawler.py: the sitemap resolver                     *)
(* (SitemapCrawler.get_urls_from_sitemap with fetch_url and parse_sitemap) *)
(* and the crawl of every resolved page URL in every language by a pool of *)
(* worker threads (crawl, process_url_with_all_languages, visit_url).      *)
(***************************************************************************)
EXTENDS Integers, Sequences, FiniteSets, TLC

----------------------------------------------------------------------------
(* Bounds of the model *)

\* the largest number of <sitemap> / <url> elements in one sitemap document
MaxEntries == 2
\* how many entries of LANGUAGES, in their configured order, are crawled
NumLanguages == 2
\* the largest value of --max-workers
MaxWorkers == 2
\* the largest number of gzip layers around a body as it is sent
MaxGzipLayers == 2

----------------------------------------------------------------------------
(* The site that is crawled *)

\* the sitemap locations of the site; the first is the sitemap_url argument
Sitemaps == {"/sitemap.xml", "/sm1.xml", "/sm2.xml"}
RootLocation == "/sitemap.xml"
\* a sitemap location whose name ends in ".gz"
GzLocation == "/sm3.xml.gz"
Locations == Sitemaps \cup {GzLocation}
\* the page URLs of the site
PageURLs == {"/a", "/b"}
\* the text of a <loc> element that has none
NoText == ""

SeqUpTo(S, n) == UNION {[1..k -> S] : k \in 0..n}

\* the number of sitemap fetches that are followed on a hierarchy with a
\* reference cycle, where the loop of get_urls_from_sitemap has no end
MaxFetches == 7

\* what a location serves: an index or a url set with its <loc> texts in
\* document order, a body that is no XML, an empty body, or no response
\* (transport failure or a status that raise_for_status rejects)
\* gz: the number of gzip layers around the body as it is sent; enc: the
\* response has the header Content-Encoding: gzip
Served(kind, locs, gz, enc) ==
    [kind |-> kind, locs |-> locs, gz |-> gz, enc |-> enc]
\* a document sent as it is
Doc(kind, locs) == Served(kind, locs, 0, FALSE)
IndexDocs == {Doc("sitemapindex", c) : c \in SeqUpTo(Sitemaps, MaxEntries)}
\* the resolver depends on a url set through the texts it lists and whether
\* one repeats: a url set has at most as many entries as there are page URLs
UrlSetDocs ==
    {Doc("urlset", c) :
        c \in SeqUpTo(PageURLs \cup {NoText}, Cardinality(PageURLs))}
FailingDocs == {Doc(k, <<>>) : k \in {"malformed", "empty", "unavailable"}}
Docs == IndexDocs \cup UrlSetDocs \cup FailingDocs

\* the locations an index names (the edges of the hierarchy)
Children(w, s) ==
    IF w[s].kind = "sitemapindex"
    THEN {w[s].locs[i] : i \in DOMAIN w[s].locs} \ {NoText}
    ELSE {}

RECURSIVE ReachN(_, _, _)
ReachN(w, S, n) ==
    IF n = 0 THEN S
    ELSE LET T == S \cup UNION {Children(w, s) : s \in S}
         IN  IF T = S THEN S ELSE ReachN(w, T, n - 1)

\* the locations reachable from the root
Reachable(w) == ReachN(w, {RootLocation}, Cardinality(Sitemaps))

\* a location lies on a reference cycle
OnCycle(w, s) ==
    s \in ReachN(w, Children(w, s), Cardinality(Sitemaps))

Acyclic(w) == \A s \in Reachable(w) : ~OnCycle(w, s)

\* the sites of the resolver's specification: every hierarchy over Sitemaps;
\* a location the root does not reach is never fetched, so it serves nothing
PlainWebs ==
    {w \in [Sitemaps -> Docs] :
        \A s \in Sitemaps \ Reachable(w) : w[s] = Doc("unavailable", <<>>)}

Webs ==
    {w @@ [s \in Locations \ Sitemaps |-> Doc("unavailable", <<>>)] :
     w \in PlainWebs}

\* the sites of the gzip specification: the root is an index of one location,
\* which serves any document under any number of gzip layers, with or
\* without the Content-Encoding header
GzipWebs ==
    {[s \in Locations |->
        IF s = RootLocation THEN Doc("sitemapindex", <<t>>)
        ELSE IF s = t THEN Served(d.kind, d.locs, gz, enc)
        ELSE Doc("unavailable", <<>>)] :
     t \in {"/sm1.xml", GzLocation},
     d \in Docs \ {Doc("unavailable", <<>>)},
     gz \in 0..MaxGzipLayers,
     enc \in BOOLEAN}

\* the sites of the crawl's specification: the root is a url set or fails.
\* The crawl depends on the site only through the list the resolver returns,
\* so the root lists each page URL at most twice and has no empty <loc>
CrawlWebs ==
    {w \in Webs :
        /\ w[RootLocation].kind # "sitemapindex"
        /\ Len(w[RootLocation].locs) <= Cardinality(PageURLs)
        /\ \A i \in DOMAIN w[RootLocation].locs :
              w[RootLocation].locs[i] # NoText}

----------------------------------------------------------------------------
(* LANGUAGES *)

AllLanguages == <<"French", "German", "Dutch", "Polish", "Swedish", "Finnish">>
LANGUAGES == SubSeq(AllLanguages, 1, NumLanguages)
LanguageNames == {LANGUAGES[i] : i \in DOMAIN LANGUAGES}

----------------------------------------------------------------------------
VARIABLES
    web,              \* the site: location -> document served
    max_workers,      \* self.max_workers
    pc,               \* where crawl() is: "resolve", "pool", "done"
    urls_to_process,  \* get_urls_from_sitemap: the work queue
    all_page_urls,    \* get_urls_from_sitemap: the accumulator
    fetchLog,         \* history: the locations fetched, in order
    sleeps,           \* history: the time.sleep calls of the resolver loop
    urls,             \* crawl: the list get_urls_from_sitemap returned
    errorLogged,      \* crawl: "No URLs found to crawl" was logged
    task,             \* the pool's work items, one per element of urls
    visited_urls,     \* self.visited_urls: language -> its set object
    heap,             \* the set objects: identity -> the URLs it holds
    gets,             \* history: requests.get calls of visit_url per pair
    failed_langs,     \* history: the languages with a visit that failed
    summary           \* the summary logged at lines 190-196

resolverVars == <<urls_to_process, all_page_urls, fetchLog, sleeps>>
poolVars == <<task, visited_urls, heap, gets, failed_langs>>
vars == <<web, max_workers, pc, urls_to_process, all_page_urls, fetchLog,
          sleeps, urls, errorLogged, task, visited_urls, heap, gets,
          failed_langs, summary>>

----------------------------------------------------------------------------
(* fetch_url and parse_sitemap *)

None == Doc("None", <<>>)

\* line 57: url.endswith('.gz')
EndsWithGz(url) == url = GzLocation

\* gzip decompression of a body: one layer less; a body that is not gzip
\* data makes it raise (None here); no bytes give no bytes
Gunzip(body) ==
    IF body.kind = "empty" /\ body.gz = 0 THEN body
    ELSE IF body.gz = 0 THEN None
    ELSE [body EXCEPT !.gz = body.gz - 1]

\* line 53, response.content of requests.get: requests itself decodes a body
\* whose response is marked Content-Encoding: gzip
ResponseContent(d) == IF d.enc THEN Gunzip(d) ELSE d

\* fetch_url: the body, decompressed when the header or the name says gzip,
\* or None when requests.get, raise_for_status or the decompression raised
fetch_url(w, url) ==
    IF w[url].kind = "unavailable" THEN None
    ELSE LET content == ResponseContent(w[url])
         IN  IF content = None THEN None
             ELSE IF w[url].enc \/ EndsWithGz(url) THEN Gunzip(content)
             ELSE content

\* "not content": None or an empty body
IsFalsy(content) ==
    content.kind = "None" \/ (content.kind = "empty" /\ content.gz = 0)

HasText(t) == t # NoText

\* parse_sitemap without the sitemapindex branch: every document is read as a
\* url set of whatever <loc> texts it has
parse_sitemap_as_urlset(content) ==
    IF content.kind = "malformed" \/ content.gz > 0 THEN <<<<>>, FALSE>>
    ELSE <<SelectSeq(content.locs, HasText), FALSE>>

\* parse_sitemap: (urls, is_index); ET.fromstring raising, as it does on
\* bytes that are still compressed, gives ([], False)
parse_sitemap(content) ==
    IF content.kind = "malformed" \/ content.gz > 0 THEN <<<<>>, FALSE>>
    ELSE IF content.kind = "sitemapindex"
         THEN <<SelectSeq(content.locs, HasText), TRUE>>
         ELSE <<SelectSeq(content.locs, HasText), FALSE>>

----------------------------------------------------------------------------
(* get_urls_from_sitemap *)

SeqToSet(s) == {s[i] : i \in DOMAIN s}

\* the orders list(set(...)) may give
Orderings(S) ==
    {s \in [1..Cardinality(S) -> S] : SeqToSet(s) = S}

\* unique_urls without the set(): list(all_page_urls)
unique_urls_keeping_repeats(all) == {all}

\* line 126: unique_urls = list(set(all_page_urls))
unique_urls(all) == Orderings(SeqToSet(all))

\* a retry without limit: the location that failed is queued again
AfterContinue_retrying(queue) == <<Head(urls_to_process)>> \o queue

\* "break" in place of "continue": the rest of the queue is abandoned
AfterContinue_abandoning(queue) == <<>>

\* the queue after "continue" at line 109
AfterContinue(queue) == queue

\* the pool's work items right after executor.map submitted them
Queued == [st |-> "queued", lang |-> 1, at |-> "check", ref |-> <<0, 0>>]

\* the identities of the set objects visit_url may create: one per work item
\* and language
SetIds(n) == (1..n) \X (1..NumLanguages)
NoSet == <<0, 0>>

\* the children put in front of the queue: the hierarchy is walked depth
\* first
Enqueue_in_front(queue, children) == children \o queue

\* the proposed guard: a location that was fetched or is being fetched is
\* not queued again
Enqueue_unseen(queue, children) ==
    LET Unseen(s) == s \notin SeqToSet(fetchLog) \cup {Head(urls_to_process)}
    IN  queue \o SelectSeq(children, Unseen)

\* line 116: urls_to_process.extend(urls)
Enqueue(queue, children) == queue \o children

\* the loop without line 123
AfterDelay_omitted(n) == n

\* line 123: time.sleep(self.delay)
AfterDelay(n) == n + 1

\* one iteration of the while loop, lines 103-123
ResolveStep ==
    /\ pc = "resolve"
    /\ urls_to_process # <<>>
    /\ Len(fetchLog) < MaxFetches \/ Acyclic(web)
    /\ LET sitemap_url == Head(urls_to_process)
           rest == Tail(urls_to_process)
           content == fetch_url(web, sitemap_url)
           parsed == parse_sitemap(content)
       IN  /\ fetchLog' = Append(fetchLog, sitemap_url)
           /\ IF IsFalsy(content)
              THEN /\ urls_to_process' = AfterContinue(rest)
                   /\ UNCHANGED <<all_page_urls, sleeps>>
              ELSE /\ IF parsed[2]
                      THEN /\ urls_to_process' = Enqueue(rest, parsed[1])
                           /\ UNCHANGED all_page_urls
                      ELSE /\ all_page_urls' = all_page_urls \o parsed[1]
                           /\ urls_to_process' = rest
                   /\ sleeps' = AfterDelay(sleeps)
    /\ UNCHANGED <<web, max_workers, pc, urls, errorLogged, summary>>
    /\ UNCHANGED poolVars

\* crawl without the early return
NoUrls_ignored(u) == FALSE

\* line 178: not urls
NoUrls(u) == u = <<>>

\* lines 125-128, then crawl lines 177-187: the empty result is logged and
\* crawl returns; otherwise every URL of the list is submitted to the pool
ResolveReturn ==
    /\ pc = "resolve"
    /\ urls_to_process = <<>>
    /\ \E u \in unique_urls(all_page_urls) :
          /\ urls' = u
          /\ IF NoUrls(u)
             THEN /\ errorLogged' = TRUE
                  /\ pc' = "done"
                  /\ UNCHANGED <<task, heap>>
             ELSE /\ pc' = "pool"
                  /\ task' = [i \in 1..Len(u) |-> Queued]
                  /\ heap' = [id \in SetIds(Len(u)) |-> {}]
                  /\ UNCHANGED errorLogged
    /\ UNCHANGED <<web, max_workers, summary, visited_urls, gets, failed_langs>>
    /\ UNCHANGED resolverVars

----------------------------------------------------------------------------
(* The thread pool: ThreadPoolExecutor(max_workers).map *)

Running(t) == {i \in DOMAIN t : t[i].st = "running"}
QueuedItems(t) == {i \in DOMAIN t : t[i].st = "queued"}

\* one thread more than max_workers
HasIdleThread_off_by_one(t, n) == Cardinality(Running(t)) <= n

\* a pool thread is free to take a work item
HasIdleThread(t, n) == Cardinality(Running(t)) < n

\* a pool thread takes the oldest queued work item and calls
\* process_url_with_all_languages on it
StartTask(i) ==
    /\ pc = "pool"
    /\ i \in QueuedItems(task)
    /\ \A j \in QueuedItems(task) : i <= j
    /\ HasIdleThread(task, max_workers)
    /\ task' = [task EXCEPT ![i].st = "running"]
    /\ UNCHANGED <<web, max_workers, pc, urls, errorLogged, summary,
                   visited_urls, heap, gets, failed_langs>>
    /\ UNCHANGED resolverVars

----------------------------------------------------------------------------
(* process_url_with_all_languages and visit_url, one step per access to    *)
(* shared state                                                            *)

At(i, where) == pc = "pool" /\ i \in DOMAIN task /\ task[i].st = "running"
                /\ task[i].at = where

\* the languages taken from the end of LANGUAGES
Lang_reversed(i) == LANGUAGES[Len(LANGUAGES) + 1 - task[i].lang]

\* line 170: the language of the current iteration of LANGUAGES.items()
Lang(i) == LANGUAGES[task[i].lang]

\* lines 170-173: visit_url returned; the loop goes to the next language or
\* the work item ends
NextLanguage(t) ==
    IF t.lang < Len(LANGUAGES)
    THEN [t EXCEPT !.lang = t.lang + 1, !.at = "check", !.ref = NoSet]
    ELSE [t EXCEPT !.st = "finished", !.at = "check", !.ref = NoSet]

\* visit_url without the try: an exception or a bad status ends the work item
AfterResponse_propagating(t, outcome) ==
    IF outcome = "200" THEN [t EXCEPT !.at = "sleep"]
    ELSE [t EXCEPT !.st = "finished", !.at = "check", !.ref = NoSet]

\* the sleep moved behind the try: every visit is followed by the delay
AfterResponse_always_sleeping(t, outcome) == [t EXCEPT !.at = "sleep"]

\* lines 152-166: what follows the response
AfterResponse(t, outcome) ==
    IF outcome = "200" THEN [t EXCEPT !.at = "sleep"] ELSE NextLanguage(t)

poolFrame == UNCHANGED <<web, max_workers, pc, urls, errorLogged, summary,
                         urls_to_process, all_page_urls, fetchLog, sleeps>>

\* line 133: language_name not in self.visited_urls
CheckLanguage(i) ==
    /\ At(i, "check")
    /\ task' = [task EXCEPT ![i].at =
                  IF Lang(i) \notin DOMAIN visited_urls THEN "create"
                  ELSE "load_test"]
    /\ UNCHANGED <<visited_urls, heap, gets, failed_langs>>
    /\ poolFrame

\* line 134: self.visited_urls[language_name] = set()
CreateSet(i) ==
    /\ At(i, "create")
    /\ visited_urls' =
          [l \in DOMAIN visited_urls \cup {Lang(i)} |->
              IF l = Lang(i) THEN <<i, task[i].lang>> ELSE visited_urls[l]]
    /\ heap' = [heap EXCEPT ![<<i, task[i].lang>>] = {}]
    /\ task' = [task EXCEPT ![i].at = "load_test"]
    /\ UNCHANGED <<gets, failed_langs>>
    /\ poolFrame

\* lines 136 and 140: self.visited_urls[language_name] is looked up
LoadSet(i) ==
    /\ At(i, "load_test") \/ At(i, "load_add")
    /\ task' = [task EXCEPT ![i].ref = visited_urls[Lang(i)],
                            ![i].at = IF task[i].at = "load_test"
                                      THEN "test" ELSE "add"]
    /\ UNCHANGED <<visited_urls, heap, gets, failed_langs>>
    /\ poolFrame

\* lines 136-138: url in <the set>; the visit is skipped when it is
TestVisited(i) ==
    /\ At(i, "test")
    /\ task' = [task EXCEPT ![i] =
                  IF urls[i] \in heap[task[i].ref]
                  THEN NextLanguage(task[i])
                  ELSE [task[i] EXCEPT !.at = "load_add", !.ref = NoSet]]
    /\ UNCHANGED <<visited_urls, heap, gets, failed_langs>>
    /\ poolFrame

\* line 140: <the set>.add(url)
AddVisited(i) ==
    /\ At(i, "add")
    /\ heap' = [heap EXCEPT ![task[i].ref] = @ \cup {urls[i]}]
    /\ task' = [task EXCEPT ![i].at = "get", ![i].ref = NoSet]
    /\ UNCHANGED <<visited_urls, gets, failed_langs>>
    /\ poolFrame

\* line 150: requests.get is issued
IssueGet(i) ==
    /\ At(i, "get")
    /\ gets' = [gets EXCEPT ![<<urls[i], Lang(i)>>] = @ + 1]
    /\ task' = [task EXCEPT ![i].at = "wait"]
    /\ UNCHANGED <<visited_urls, heap, failed_langs>>
    /\ poolFrame

\* a visit that failed takes its URL out of the language's set again
Response_unmarking(i, outcome) ==
    /\ At(i, "wait")
    /\ failed_langs' = IF outcome = "200" THEN failed_langs
                       ELSE failed_langs \cup {Lang(i)}
    /\ heap' = IF outcome = "200" THEN heap
               ELSE [heap EXCEPT ![visited_urls[Lang(i)]] = @ \ {urls[i]}]
    /\ task' = [task EXCEPT ![i] = AfterResponse(task[i], outcome)]
    /\ UNCHANGED <<visited_urls, gets>>
    /\ poolFrame

\* lines 150-166: requests.get returns a status or raises
Response(i, outcome) ==
    /\ At(i, "wait")
    /\ failed_langs' = IF outcome = "200" THEN failed_langs
                       ELSE failed_langs \cup {Lang(i)}
    /\ task' = [task EXCEPT ![i] = AfterResponse(task[i], outcome)]
    /\ UNCHANGED <<visited_urls, heap, gets>>
    /\ poolFrame

\* line 161: time.sleep(self.delay + random.uniform(0, 1)) is over
Sleep(i) ==
    /\ At(i, "sleep")
    /\ task' = [task EXCEPT ![i] = NextLanguage(task[i])]
    /\ UNCHANGED <<visited_urls, heap, gets, failed_langs>>
    /\ poolFrame

----------------------------------------------------------------------------
(* crawl, lines 186-196 *)

\* shutdown(wait=False): crawl goes on while work items are pending
PoolIsDone_not_waiting(t) == TRUE

\* leaving the with block: shutdown(wait=True) returns
PoolIsDone(t) == \A i \in DOMAIN t : t[i].st = "finished"

RECURSIVE Sum(_, _)
Sum(f, S) ==
    IF S = {} THEN 0
    ELSE LET x == CHOOSE y \in S : TRUE IN f[x] + Sum(f, S \ {x})

\* lines 190-196: the count of every language of self.visited_urls and the
\* total
Summarize ==
    /\ pc = "pool"
    /\ PoolIsDone(task)
    /\ LET counts == [l \in DOMAIN visited_urls |->
                         Cardinality(heap[visited_urls[l]])]
       IN  summary' = [printed |-> TRUE, counts |-> counts,
                       total |-> Sum(counts, DOMAIN counts)]
    /\ pc' = "done"
    /\ UNCHANGED <<web, max_workers, urls, errorLogged>>
    /\ UNCHANGED resolverVars
    /\ UNCHANGED poolVars

----------------------------------------------------------------------------
(* Specifications *)

Pairs == PageURLs \X LanguageNames
Outcomes == {"200", "http", "exception"}

InitWith(W) ==
    /\ web \in W
    /\ max_workers \in 1..MaxWorkers
    /\ pc = "resolve"
    /\ urls_to_process = <<RootLocation>>
    /\ all_page_urls = <<>>
    /\ fetchLog = <<>>
    /\ sleeps = 0
    /\ urls = <<>>
    /\ errorLogged = FALSE
    /\ task = <<>>
    /\ visited_urls = <<>>
    /\ heap = <<>>
    /\ gets = [p \in Pairs |-> 0]
    /\ failed_langs = {}
    /\ summary = [printed |-> FALSE, counts |-> <<>>, total |-> 0]

\* the whole program on the sites whose root is a url set
Init == InitWith(CrawlWebs)

Next ==
    \/ ResolveStep
    \/ ResolveReturn
    \/ \E i \in DOMAIN task : StartTask(i)
    \/ \E i \in DOMAIN task : CheckLanguage(i)
    \/ \E i \in DOMAIN task : CreateSet(i)
    \/ \E i \in DOMAIN task : LoadSet(i)
    \/ \E i \in DOMAIN task : TestVisited(i)
    \/ \E i \in DOMAIN task : AddVisited(i)
    \/ \E i \in DOMAIN task : IssueGet(i)
    \/ \E i \in DOMAIN task : \E o \in Outcomes : Response(i, o)
    \/ \E i \in DOMAIN task : Sleep(i)
    \/ Summarize

Spec == Init /\ [][Next]_vars

\* the resolver alone on every hierarchy over Sitemaps
InitResolve == InitWith(Webs) /\ max_workers = 1
NextResolve == ResolveStep \/ ResolveReturn
SpecResolve == InitResolve /\ [][NextResolve]_vars

\* the resolver on the hierarchies without a reference cycle. The loop keeps
\* running: every fetch returns (requests.get has a timeout) and nothing else
\* competes with the loop
AcyclicWebs == {w \in Webs : Acyclic(w)}
InitAcyclic == InitWith(AcyclicWebs) /\ max_workers = 1
SpecResolveFair ==
    InitAcyclic /\ [][NextResolve]_vars /\ WF_vars(NextResolve)

\* the resolver on the sites that serve one document compressed
InitGzip == InitWith(GzipWebs) /\ max_workers = 1
SpecGzip == InitGzip /\ [][NextResolve]_vars

----------------------------------------------------------------------------
(* Properties *)

\* the set the resolver returned
U == SeqToSet(urls)

Returned == pc # "resolve"
Done == pc = "done"

\* the <loc> texts a url set contributes
Texts(d) == SeqToSet(d.locs) \ {NoText}

\* C1: during one crawl run the page GET of visit_url is issued at most once
\* for every (page URL, language) pair, for every number of workers and
\* every interleaving of the worker threads.
C1_GetAtMostOncePerPair ==
    \A p \in Pairs : gets[p] <= 1

\* two work items have their GET of the same language in flight
C1_TwoWorkersInFlight ==
    /\ pc = "pool"
    /\ \E i, j \in DOMAIN task :
          /\ i # j
          /\ task[i].st = "running" /\ task[j].st = "running"
          /\ task[i].at = "wait" /\ task[j].at = "wait"
          /\ task[i].lang = task[j].lang

\* C2: when crawl() finishes with a non-empty resolved set U, every pair of
\* U x LANGUAGES has been visited exactly once: exactly |U| * |LANGUAGES|
\* page GETs were issued, whatever the outcomes and the scheduling.
C2_EveryPairExactlyOnce ==
    (Done /\ urls # <<>>) =>
        /\ \A u \in U : \A l \in LanguageNames : gets[<<u, l>>] = 1
        /\ Sum(gets, Pairs) = Cardinality(U) * Len(LANGUAGES)

\* a crawl of two URLs by two threads has finished with failed visits
C2_FinishedTwoUrls ==
    /\ Done
    /\ Cardinality(U) = 2
    /\ max_workers = 2
    /\ failed_langs # {}
    /\ Sum(gets, Pairs) = 2 * Len(LANGUAGES)

\* C3: when crawl() completes with a non-empty resolved set U the summary
\* reports for every configured language a count of |U| and a total of
\* |U| * |LANGUAGES|, for every interleaving of the worker threads.
C3_SummaryCountsAll ==
    (Done /\ urls # <<>>) =>
        /\ DOMAIN summary.counts = LanguageNames
        /\ \A l \in DOMAIN summary.counts :
              summary.counts[l] = Cardinality(U)
        /\ summary.total = Cardinality(U) * Len(LANGUAGES)

\* C4: the list get_urls_from_sitemap returns contains no string twice,
\* also when a <loc> text occurs several times in one document or in
\* several documents.
C4_NoDuplicateInResult ==
    Returned => \A i, j \in DOMAIN urls : i # j => urls[i] # urls[j]

\* the resolver returned after it collected one text from two documents and
\* twice from one document
C4_RepeatedLocCollected ==
    /\ Returned
    /\ urls # <<>>
    /\ \E s, t \in SeqToSet(fetchLog) :
          /\ s # t
          /\ web[s].kind = "urlset" /\ web[t].kind = "urlset"
          /\ Texts(web[s]) \cap Texts(web[t]) # {}
          /\ \E i, j \in DOMAIN web[s].locs :
                i # j /\ web[s].locs[i] = web[s].locs[j]
                      /\ web[s].locs[i] # NoText

\* every document the root reaches is an index or a url set that is served
AllSucceed(w) ==
    \A s \in Reachable(w) : w[s].kind \in {"sitemapindex", "urlset"}

ReachableLeaves(w) == {s \in Reachable(w) : w[s].kind = "urlset"}

\* C5: on an acyclic hierarchy of any depth whose fetches and parses all
\* succeed, get_urls_from_sitemap fetches every leaf url set the root reaches
\* and returns exactly the <url><loc> texts of those leaves.
C5_ResolvesWholeHierarchy ==
    (Returned /\ Acyclic(web) /\ AllSucceed(web)) =>
        /\ ReachableLeaves(web) \subseteq SeqToSet(fetchLog)
        /\ U = UNION {Texts(web[s]) : s \in ReachableLeaves(web)}

\* the resolver returned the pages of a leaf two indexes below the root
C5_LeafAtDepthThree ==
    /\ Returned
    /\ Acyclic(web) /\ AllSucceed(web)
    /\ \E s, t \in Sitemaps \ {RootLocation} :
          /\ s # t
          /\ Children(web, RootLocation) = {s}
          /\ t \in Children(web, s)
          /\ web[t].kind = "urlset"
          /\ Texts(web[t]) # {}
    /\ U # {}

\* the <sitemap><loc> entries of what the i-th fetch obtained
Enqueued(i) ==
    IF web[fetchLog[i]].kind = "sitemapindex"
    THEN Len(SelectSeq(web[fetchLog[i]].locs, HasText))
    ELSE 0

RECURSIVE SumTo(_)
SumTo(n) == IF n = 0 THEN 0 ELSE Enqueued(n) + SumTo(n - 1)

FailsAt(i) == web[fetchLog[i]].kind \in {"malformed", "empty", "unavailable"}

\* C6: a fetch or parse failure of one sitemap document never aborts the
\* resolution: no queued location is dropped (each is still in the queue or
\* was dequeued), the result holds every page URL of every leaf that was
\* fetched and parsed, and a failing root yields the empty result.
C6_FailureDoesNotAbort ==
    /\ Len(fetchLog) + Len(urls_to_process) = 1 + SumTo(Len(fetchLog))
    /\ Returned =>
          /\ U = UNION {Texts(web[s]) :
                          s \in {t \in SeqToSet(fetchLog) :
                                    web[t].kind = "urlset"}}
          /\ (web[RootLocation].kind \in
                  {"malformed", "empty", "unavailable"}) => urls = <<>>

\* the resolver returned the pages of a leaf that was queued behind a
\* document that failed
C6_LeafAfterFailure ==
    /\ Returned
    /\ \E j, k \in DOMAIN fetchLog :
          /\ j < k
          /\ FailsAt(j)
          /\ web[fetchLog[k]].kind = "urlset"
          /\ Texts(web[fetchLog[k]]) # {}
          /\ Texts(web[fetchLog[k]]) \subseteq U

\* C7: a page visit that ends with a non-200 status or a transport exception
\* does not halt the crawl: the work item goes on to the remaining languages
\* of its URL, and every other URL is still visited in every language.
C7_FailedVisitDoesNotHalt ==
    /\ \A i \in DOMAIN task :
          task[i].st = "finished" =>
              \A l \in LanguageNames : gets[<<urls[i], l>>] >= 1
    /\ (Done /\ failed_langs # {}) =>
          \A u \in U : \A l \in LanguageNames : gets[<<u, l>>] >= 1

\* the crawl of two URLs finished although a visit failed in every language
\* but the last one
C7_FinishedDespiteFailures ==
    /\ Done
    /\ Cardinality(U) = 2
    /\ \A k \in 1..(Len(LANGUAGES) - 1) : LANGUAGES[k] \in failed_langs
    /\ \A u \in U : gets[<<u, LANGUAGES[Len(LANGUAGES)]>>] = 1

\* C8 as stated: every crawl run that terminates ends by producing the
\* per-language summary, also when the resolver returned no URLs.
C8_AlwaysSummary ==
    Done => summary.printed

\* C8: a crawl run that terminates with a non-empty resolved list ends by
\* producing the per-language summary, whatever visits failed; when the
\* resolver returned no URLs the error is logged, no visit is made and no
\* summary is produced.
C8_SummaryUnlessNoUrls ==
    Done =>
        /\ summary.printed <=> urls # <<>>
        /\ urls # <<>> => DOMAIN summary.counts = LanguageNames
        /\ urls = <<>> =>
              /\ errorLogged
              /\ \A p \in Pairs : gets[p] = 0

\* a run with failed visits printed its summary
C8_SummaryAfterFailures ==
    /\ Done
    /\ summary.printed
    /\ failed_langs = LanguageNames

\* the positions of visit_url between its check (line 133) and its mark
\* (line 140)
InCheckAndMark(i) ==
    /\ pc = "pool"
    /\ task[i].st = "running"
    /\ task[i].at \in {"create", "load_test", "test", "load_add", "add"}

\* a step of work item j on the entry or the set of the language of work
\* item i
TrackerStep(i, j) ==
    /\ task[j].st = "running"
    /\ task[j].lang = task[i].lang
    /\ task[j].at \in {"check", "create", "load_test", "test", "load_add",
                       "add"}
    /\ task'[j] # task[j]

\* C9: the check-and-mark of visit_url is atomic with respect to the other
\* workers: no step of another worker on the Tracker occurs between one
\* worker's check and that worker's mark.
C9_CheckAndMarkAtomic ==
    [][\A i, j \in DOMAIN task :
          (i # j /\ InCheckAndMark(i)) => ~TrackerStep(i, j)]_vars

InFlight(t) == {i \in DOMAIN t : t[i].st = "running" /\ t[i].at = "wait"}

\* C10: at every moment at most max_workers page URLs are being processed,
\* hence at most max_workers page GETs are in flight.
C10_AtMostMaxWorkers ==
    /\ Cardinality(Running(task)) <= max_workers
    /\ Cardinality(InFlight(task)) <= max_workers

\* one URL waits in the queue while max_workers GETs are in flight
C10_PoolSaturated ==
    /\ pc = "pool"
    /\ QueuedItems(task) # {}
    /\ Cardinality(InFlight(task)) = max_workers

\* the location is served as the gzip of a sitemap document and the name or
\* the response says so
ServedGzipped(w, s) ==
    /\ w[s].kind \in {"sitemapindex", "urlset"}
    /\ w[s].gz = 1
    /\ EndsWithGz(s) \/ w[s].enc

\* C11: for a sitemap whose location ends in .gz or whose response declares
\* gzip content-encoding, the resolver decompresses the body before parsing
\* and obtains the entries and the index/leaf classification of the
\* uncompressed equivalent: right after its iteration the queue and the
\* accumulator are what the uncompressed document gives.
C11_GzipSameAsPlain ==
    (pc = "resolve" /\ Len(fetchLog) = 2
        /\ ServedGzipped(web, fetchLog[2])) =>
        LET plain == parse_sitemap(Doc(web[fetchLog[2]].kind,
                                       web[fetchLog[2]].locs))
        IN  /\ urls_to_process = IF plain[2] THEN plain[1] ELSE <<>>
            /\ all_page_urls = IF plain[2] THEN <<>> ELSE plain[1]

\* the URLs marked for a language: the content of the set its entry names
Marked(v, h, l) == IF l \in DOMAIN v THEN h[v[l]] ELSE {}

\* C12: once a (URL, language) pair is marked in the Tracker it stays a
\* member of that language's visited set in every later state: a language's
\* set is created once and never replaced, emptied or shrunk.
C12_MarkedStaysMarked ==
    [][\A l \in LanguageNames :
          /\ Marked(visited_urls, heap, l) \subseteq
                Marked(visited_urls', heap', l)
          /\ l \in DOMAIN visited_urls =>
                (l \in DOMAIN visited_urls' /\ visited_urls'[l] = visited_urls[l])
      ]_vars

\* the iterations of the resolver loop whose location served a non-empty
\* body
WithBody ==
    {i \in DOMAIN fetchLog :
        web[fetchLog[i]].kind \notin {"unavailable", "empty"}}

\* C13 as stated: the politeness delay is applied exactly once after every
\* dequeue iteration, whatever the iteration did.
C13_DelayEveryIteration ==
    sleeps = Len(fetchLog)

\* C13: the politeness delay is applied exactly once after every iteration
\* whose fetch returned a non-empty body (an index, a leaf or a body that
\* does not parse), and not at all after an iteration whose fetch failed or
\* returned an empty body.
C13_DelayAfterBodyOnly ==
    sleeps = Cardinality(WithBody)

\* the resolver went on without delay after a fetch that failed, and slept
\* after an index, a leaf and a body that does not parse
C13_IterationWithoutDelay ==
    /\ Len(fetchLog) >= 3
    /\ sleeps < Len(fetchLog)
    /\ \E i, j \in DOMAIN fetchLog :
          /\ i < j
          /\ web[fetchLog[i]].kind \in {"unavailable", "empty"}
          /\ web[fetchLog[j]].kind \in {"urlset", "malformed"}
    /\ sleeps >= 2

\* work item i receives the response to its GET in this step
GetsResponse(i) ==
    /\ pc = "pool"
    /\ task[i].st = "running"
    /\ task[i].at = "wait"
    /\ task'[i] # task[i]

\* C14: a visit_url call that is not skipped performs exactly one GET and
\* then sleeps if and only if the status is 200: a failure (it puts the
\* language into failed_langs) is followed by no sleep but at once by the
\* next language of that worker, and a visit that is not followed by a sleep
\* was a failure.
C14_SleepIffStatus200 ==
    [][\A i \in DOMAIN task :
          /\ GetsResponse(i) =>
                /\ gets[<<urls[i], Lang(i)>>] = 1
                /\ gets' = gets
                /\ Lang(i) \in failed_langs' \ failed_langs =>
                      task'[i] = NextLanguage(task[i])
                /\ task'[i].at # "sleep" => Lang(i) \in failed_langs'
                /\ task'[i].at = "sleep" =>
                      /\ failed_langs' = failed_langs
                      /\ task'[i].lang = task[i].lang
          /\ (pc = "pool" /\ task[i].st = "running" /\ task[i].at = "sleep"
                /\ task'[i] # task[i]) =>
                (gets' = gets /\ task'[i] = NextLanguage(task[i]))
      ]_vars

\* a worker that got a failure for its first language has issued the GET of
\* its second language while another worker sleeps after a 200
C14_NextRequestAfterFailure ==
    /\ pc = "pool"
    /\ \E i, j \in DOMAIN task :
          /\ i # j
          /\ task[i].st = "running" /\ task[i].lang = 2
          /\ task[i].at = "wait"
          /\ LANGUAGES[1] \in failed_langs
          /\ task[j].st = "running" /\ task[j].at = "sleep"

\* the GET of the k-th language of work item i has been issued
Visited(i, k) ==
    \/ task[i].st = "finished"
    \/ /\ task[i].st = "running"
       /\ \/ k < task[i].lang
          \/ k = task[i].lang /\ task[i].at \in {"wait", "sleep"}

\* C15: the visits of one page URL happen on one worker in the configured
\* order of LANGUAGES, each finishing (with its sleep) before the next
\* starts: the languages requested for a URL are those before its worker's
\* current one, one GET each, and no two visits of one URL are in flight.
C15_LanguagesInOrderPerUrl ==
    /\ \A i \in DOMAIN task : \A k \in DOMAIN LANGUAGES :
          gets[<<urls[i], LANGUAGES[k]>>] = IF Visited(i, k) THEN 1 ELSE 0
    /\ \A i, j \in InFlight(task) : i # j => urls[i] # urls[j]

\* two URLs have their GET of the second language in flight, after their
\* first
C15_SameLanguageOverlaps ==
    /\ pc = "pool"
    /\ Len(LANGUAGES) >= 2
    /\ \E i, j \in InFlight(task) :
          /\ i # j
          /\ urls[i] # urls[j]
          /\ task[i].lang = 2 /\ task[j].lang = 2
          /\ gets[<<urls[i], LANGUAGES[1]>>] = 1
          /\ gets[<<urls[j], LANGUAGES[1]>>] = 1

\* the <sitemap><loc> texts of an index, in document order
ChildSeq(s) ==
    IF web[s].kind = "sitemapindex"
    THEN SelectSeq(web[s].locs, HasText)
    ELSE <<>>

\* every location enqueued up to the n-th fetch, in a first-in-first-out
\* queue: the root, then the children of each fetched location in turn
RECURSIVE EnqueuedTo(_)
EnqueuedTo(n) ==
    IF n = 0 THEN <<RootLocation>>
    ELSE EnqueuedTo(n - 1) \o ChildSeq(fetchLog[n])

\* the nesting depth of each of them
RECURSIVE DepthsFrom(_, _)
DepthsFrom(d, n) ==
    IF n > Len(fetchLog) THEN d
    ELSE DepthsFrom(d \o [k \in 1..Len(ChildSeq(fetchLog[n])) |-> d[n] + 1],
                    n + 1)

\* C16: the resolver fetches the locations in the order they were enqueued:
\* the children of an index go to the back of the queue in document order,
\* so a location of depth d is fetched before any of depth d + 1.
C16_FetchOrderIsFifo ==
    /\ fetchLog \o urls_to_process = EnqueuedTo(Len(fetchLog))
    /\ LET d == DepthsFrom(<<0>>, 1)
       IN  \A i \in 1..(Len(d) - 1) : d[i] <= d[i + 1]

\* an index of depth 1 with a child was fetched before its sibling, and the
\* sibling before that child
C16_SiblingBeforeGrandchild ==
    /\ Len(fetchLog) >= 4
    /\ Len(ChildSeq(RootLocation)) = 2
    /\ fetchLog[2] # fetchLog[3]
    /\ ChildSeq(fetchLog[2]) # <<>>
    /\ fetchLog[4] = ChildSeq(fetchLog[2])[1]
    /\ fetchLog[4] # fetchLog[3]

\* from location q a location on a reference cycle is reached
LeadsToCycle(w, q) ==
    \E s \in ReachN(w, {q}, Cardinality(Sitemaps)) : OnCycle(w, s)

\* C17: when an index reachable from the root references itself or an
\* ancestor (every document on the cycle is served and parsed), the resolver
\* never terminates: the queue always holds a location that leads back into
\* the cycle, so it never drains, crawl stays in the resolver and no page
\* visit is started.
C17_CycleNeverDrains ==
    LeadsToCycle(web, RootLocation) =>
        /\ pc = "resolve"
        /\ \E i \in DOMAIN urls_to_process :
              LeadsToCycle(web, urls_to_process[i])
        /\ task = <<>>
        /\ \A p \in Pairs : gets[p] = 0

\* the root was fetched a third time through a child that names it
C17_AroundTheCycleTwice ==
    /\ \E s \in Sitemaps \ {RootLocation} :
          /\ s \in Children(web, RootLocation)
          /\ RootLocation \in Children(web, s)
    /\ Cardinality({i \in DOMAIN fetchLog : fetchLog[i] = RootLocation}) >= 3
    /\ urls_to_process # <<>>

\* C18 as stated: a pair whose visit failed is not counted in the summary;
\* the count of a language with a failed visit is lower than the number of
\* resolved page URLs.
C18_FailuresLowerCount ==
    (Done /\ summary.printed) =>
        \A l \in failed_langs :
            l \in DOMAIN summary.counts => summary.counts[l] < Cardinality(U)

\* C18: a pair whose visit ended in a non-200 status or an exception is
\* counted like a successful one: the pair is marked before the GET, the
\* response leaves the Tracker as it is, and the summary counts the marked
\* URLs of each language whatever the outcomes were.
C18_FailuresAreCounted ==
    [][/\ \A i \in DOMAIN task :
             GetsResponse(i) => (visited_urls' = visited_urls /\ heap' = heap)
       /\ (pc = "pool" /\ pc' = "done") =>
             /\ DOMAIN summary'.counts = DOMAIN visited_urls
             /\ \A l \in DOMAIN visited_urls :
                   summary'.counts[l] =
                        Cardinality(Marked(visited_urls, heap, l))
      ]_vars

\* every language had a failed visit and the summary counts every URL in
\* every language
C18_FullCountsDespiteFailures ==
    /\ Done
    /\ summary.printed
    /\ Cardinality(U) = 2
    /\ failed_langs = LanguageNames
    /\ \A l \in LanguageNames : summary.counts[l] = Cardinality(U)

\* the fetches one reference to location s causes, followed d levels down
RECURSIVE FetchesFor(_, _)
RECURSIVE FetchesForAll(_, _)
FetchesFor(s, d) ==
    IF d = 0 THEN 0 ELSE 1 + FetchesForAll(ChildSeq(s), d - 1)
FetchesForAll(c, d) ==
    IF c = <<>> THEN 0
    ELSE FetchesFor(Head(c), d) + FetchesForAll(Tail(c), d)

\* C19: get_urls_from_sitemap terminates whenever the documents reachable
\* from the root are free of reference cycles, for every mix of fetch and
\* parse failures; a location that several indexes (or one index several
\* times) reference is fetched once per reference, so the fetches never
\* exceed the references of the hierarchy.
C19_AcyclicTerminates ==
    /\ Acyclic(web) ~> Returned
    /\ [](Acyclic(web) =>
             Len(fetchLog) <= FetchesFor(RootLocation, Cardinality(Sitemaps)))
    /\ [](Acyclic(web) /\ Returned =>
             /\ urls_to_process = <<>>
             /\ Len(fetchLog) = FetchesFor(RootLocation, Cardinality(Sitemaps)))

\* the resolver returned after it fetched twice a location that two indexes
\* reference and that failed both times
C19_ReturnedAfterRepeatedFetch ==
    /\ Returned
    /\ Acyclic(web)
    /\ \E i, j, k \in DOMAIN fetchLog :
          /\ i < j /\ j < k
          /\ web[fetchLog[i]].kind = "sitemapindex"
          /\ fetchLog[i] # RootLocation
          /\ fetchLog[j] = fetchLog[k]
          /\ FailsAt(j) /\ FailsAt(k)

\* C20: crawl() hands each distinct resolved page URL to the pool exactly
\* once: no two work items carry the same URL, and the membership test of
\* visit_url (lines 136-138) never finds the URL in the set it tests, so the
\* skip branch is never taken within one crawl.
C20_SkipBranchUnreachable ==
    pc = "pool" =>
        /\ DOMAIN task = DOMAIN urls
        /\ SeqToSet(urls) = SeqToSet(all_page_urls)
        /\ \A i, j \in DOMAIN task : urls[i] = urls[j] => i = j
        /\ \A i \in DOMAIN task :
              At(i, "test") => urls[i] \notin heap[task[i].ref]

\* a work item is at the membership test of a set that already holds the
\* URL of another work item
C20_TestsSetMarkedByOther ==
    \E i \in DOMAIN task :
        /\ At(i, "test")
        /\ \E j \in DOMAIN task :
              j # i /\ urls[j] \in heap[task[i].ref]

====
